---- MODULE Spec2Model ----
(***************************************************************************)
(* Model of the bounded-concurrency task executor of go-hutool             *)
(* (src/async/async.go): AsyncExecutor with its capacity limiter           *)
(* (workerPool), its unbuffered result sink (results), its WaitGroup (wg)  *)
(* and its cancellable context (ctx).                                      *)
(*                                                                         *)
(* One caller goroutine issues the operations one after the other, as      *)
(* testAsync does; every Execute starts a goroutine of its own, every      *)
(* ExecuteWithTimeout another, every Wait a third kind.  Each action is    *)
(* one atomic step of one goroutine between two synchronisation points.    *)
(***************************************************************************)
EXTENDS Integers, Sequences, FiniteSets

\* ------------------------------------------------------------------ bounds
\* Largest capacity NewAsyncExecutor is called with.
MaxWorkers == 2
\* Number of Execute submissions (direct or through ExecuteAll) in a run.
MaxTasks == 2
\* Number of ExecuteWithTimeout calls in a run.
MaxTimed == 1
\* Number of ExecuteAll calls in a run.
MaxBatches == 1
\* Number of Shutdown calls in a run.
MaxShutdowns == 1
\* Number of ExecuteAllWithTimeout calls in a run.
MaxTimedBatches == 1
\* Number of goroutines of Wait blocked in wg.Wait() when the caller calls
\* Wait itself.
MaxWaiters == 1
\* Largest capacity of the backing array of a List's items.
MaxCap == 2
\* Number of backing arrays allocated in a run.
MaxArrays == 2
\* The items put in a List, and the values put in a Map, are 1..MaxVal.
MaxVal == 2
\* Number of goroutines that call Map.Merge in a run, once each.
MaxMergers == 2
\* The keys put in a Map are 1..MaxKey.
MaxKey == 1

Tasks == 1..MaxTasks
Timed == 1..MaxTimed
TimedBatches == 1..MaxTimedBatches

\* ------------------------------------------------------------------ values
\* The nil interface value of Result.Value.
Nil == "nil"
\* The nil error; an error is the sequence of the pieces of its text.
NoErr == <<>>
\* ctx.Err() of a cancelled context.
Canceled == <<"context canceled">>

\* What a Task body does when it is invoked: it returns (value, error) or it
\* panics with a payload.
Outcomes ==
    { [kind |-> "return", value |-> "v", err |-> NoErr, payload |-> Nil],
      [kind |-> "return", value |-> Nil, err |-> <<"e">>, payload |-> Nil],
      [kind |-> "panic", value |-> Nil, err |-> NoErr, payload |-> "boom"] }

\* The body has not been invoked, or has not finished.
NoOutcome == [kind |-> "none", value |-> Nil, err |-> NoErr, payload |-> Nil]

\* An error text contains the piece p.
Contains(err, p) == \E i \in DOMAIN err : err[i] = p

\* fmt.Errorf("... panic: %v", r)
PanicErr(r) == <<"panic: ", r>>

\* fmt.Errorf("... timed out after %v", timeout)
TimeoutErr == <<"task timed out after ", "T">>

VARIABLES
    workers,     \* capacity of workerPool, fixed by NewAsyncExecutor
    workerPool,  \* number of tokens held in the workerPool channel
    closed,      \* the results channel has been closed
    wg,          \* the WaitGroup counter
    ctxDone,     \* e.ctx is cancelled
    parentDone,  \* the context given to WithContext is cancelled
    crashed,     \* "none", or the unrecovered runtime panic that ended the process
    pc,          \* position of each Execute goroutine
    res,         \* the Result each Execute goroutine is about to send / has sent
    did,         \* ghost: what the Task body of each Execute goroutine did
    invoked,     \* ghost: number of invocations of each Task body
    published,   \* ghost: number of Results each goroutine handed to the sink
    waiters,     \* number of Wait goroutines blocked in wg.Wait()
    caller,      \* position of the calling goroutine
    allLeft,     \* ExecuteAll: tasks not yet submitted
    allK,        \* ghost: number of tasks given to the current/last ExecuteAll
    allBatch,    \* ghost: number of ExecuteAll calls made
    allFirst,    \* ghost: the first submission of the current/last ExecuteAll
    allResults,  \* ExecuteAll: the slice of collected Results
    tpc,         \* position of each ExecuteWithTimeout goroutine
    tdid,        \* ghost: what the body of each ExecuteWithTimeout task did
    resultChan,  \* the buffered channel (capacity 1) of each ExecuteWithTimeout
    timer,       \* the timeout of each ExecuteWithTimeout has elapsed
    tret,        \* what each ExecuteWithTimeout returned
    tavail,      \* ghost: at its return, was the Result in resultChan / was ctx done
    cur,         \* the ExecuteWithTimeout call the caller is in
    sdCalls,     \* number of Shutdown calls made
    sdWaiter,    \* the goroutine of the current Shutdown is blocked in wg.Wait()
    sdDone,      \* the done channel of the current Shutdown is closed
    sdTimer,     \* time.After(timeout) of the current Shutdown has fired
    sdRet,       \* the error the last Shutdown returned
    sdAtCall,    \* ghost: had every accepted Task body ended when Shutdown was called
    sdAtReturn,  \* ghost: wg, ready cases and submissions made when Shutdown returned
    awtCalls,    \* number of ExecuteAllWithTimeout calls made (the last is the current)
    awtLeft,     \* ExecuteAllWithTimeout: tasks not yet submitted
    awtK,        \* ghost: number of tasks given to each ExecuteAllWithTimeout
    awtFirst,    \* ghost: the first submission of each ExecuteAllWithTimeout
    awtAcc,      \* the results variable the collector goroutine of each call appends to
    awtCollector,\* position of the collector goroutine of each call
    awtTimer,    \* the timeout of each ExecuteAllWithTimeout has elapsed
    awtRet,      \* the slice each ExecuteAllWithTimeout returned
    awtBranch,   \* the case of the select each ExecuteAllWithTimeout returned through
    heap,        \* the backing arrays allocated for the items of the Lists
    items,       \* the items slice of each List: its backing array and its length
    made,        \* the Lists that have been constructed
    last,        \* ghost: the last List operation and the List it was called on
    mutex,       \* the RWMutex of each Map: its writer and its readers
    mitems,      \* the items of each Map
    mpc,         \* position of each goroutine calling Merge
    margs        \* the receiver and the argument of each Merge call

asyncVars ==
    <<workers, workerPool, closed, wg, ctxDone, parentDone, crashed, pc, res, did, invoked,
      published, waiters, caller, allLeft, allK, allBatch, allFirst, allResults,
      tpc, tdid, resultChan, timer, tret, tavail, cur,
      sdCalls, sdWaiter, sdDone, sdTimer, sdRet, sdAtCall, sdAtReturn,
      awtCalls, awtLeft, awtK, awtFirst, awtAcc, awtCollector, awtTimer, awtRet,
      awtBranch>>
listVars == <<heap, items, made, last>>
mapVars == <<mutex, mitems, mpc, margs>>
vars == <<asyncVars, listVars, mapVars>>

execVars == <<pc, res, did, invoked, published>>
allVars == <<allLeft, allK, allBatch, allFirst, allResults>>
timedVars == <<tpc, tdid, resultChan, timer, tret, tavail, cur>>
shutVars == <<sdCalls, sdWaiter, sdDone, sdTimer, sdRet, sdAtCall, sdAtReturn>>
awtVars == <<awtCalls, awtLeft, awtK, awtFirst, awtAcc, awtCollector, awtTimer, awtRet,
             awtBranch>>

\* fmt.Errorf("shutdown timed out after %v", timeout)
ShutdownErr == <<"shutdown timed out after ", "T">>
\* Shutdown has not returned yet.
NoReturn == <<"none">>
\* Ghost record of a Shutdown that has not returned yet.
NotReturned == [wg |-> 0, ready |-> "unset", tasks |-> 0]

\* No Result (an empty resultChan, a goroutine that has computed nothing yet).
NoResult == [Value |-> Nil, Err |-> <<"none">>]

\* The Lists of a run: l and other are made by NewEmpty, c is the result of
\* l.Clone(), r the result of the first l.Concat(other).
Lists == {"l", "other", "c", "r"}
\* The items of the Lists, and the zero value of the item type.
Vals == 1..MaxVal
Zero == 0
\* A slice of length 0 and capacity 0 (nil or []T{}): no backing array.
NilSlice == [arr |-> 0, len |-> 0]

\* The Maps of a run, made by New, and the goroutines that call Merge.
Maps == {"a", "b"}
Mergers == 1..MaxMergers
Keys == 1..MaxKey
\* The key is not in the map.
Absent == 0

\* ------------------------------------------------------------ construction
\* NewAsyncExecutor(workers, WithContext(ctx)): an empty pool of the given
\* capacity, an open unbuffered results channel, a live context.
Init ==
    /\ workers \in 0..MaxWorkers
    /\ workerPool = 0
    /\ closed = FALSE
    /\ wg = 0
    /\ ctxDone = FALSE
    /\ parentDone = FALSE
    /\ crashed = "none"
    /\ pc = [w \in Tasks |-> "idle"]
    /\ res = [w \in Tasks |-> NoResult]
    /\ did = [w \in Tasks |-> NoOutcome]
    /\ invoked = [w \in Tasks |-> 0]
    /\ published = [w \in Tasks |-> 0]
    /\ waiters = 0
    /\ caller = "ready"
    /\ allLeft = 0
    /\ allK = 0
    /\ allBatch = 0
    /\ allFirst = 0
    /\ allResults = <<>>
    /\ tpc = [t \in Timed |-> "idle"]
    /\ tdid = [t \in Timed |-> NoOutcome]
    /\ resultChan = [t \in Timed |-> NoResult]
    /\ timer = [t \in Timed |-> FALSE]
    /\ tret = [t \in Timed |-> NoResult]
    /\ tavail = [t \in Timed |-> "unset"]
    /\ cur = 0
    /\ sdCalls = 0
    /\ sdWaiter = FALSE
    /\ sdDone = FALSE
    /\ sdTimer = FALSE
    /\ sdRet = NoReturn
    /\ sdAtCall = FALSE
    /\ sdAtReturn = NotReturned
    /\ awtCalls = 0
    /\ awtLeft = 0
    /\ awtK = [c \in TimedBatches |-> 0]
    /\ awtFirst = [c \in TimedBatches |-> 0]
    /\ awtAcc = [c \in TimedBatches |-> <<>>]
    /\ awtCollector = [c \in TimedBatches |-> "none"]
    /\ awtTimer = [c \in TimedBatches |-> FALSE]
    /\ awtRet = [c \in TimedBatches |-> <<>>]
    /\ awtBranch = [c \in TimedBatches |-> "none"]
    /\ heap = <<>>
    /\ items = [x \in Lists |-> NilSlice]
    /\ made = [x \in Lists |-> x \in {"l", "other"}]
    /\ last = [op |-> "none", on |-> "none"]
    /\ mutex = [m \in Maps |-> [writer |-> 0, readers |-> {}]]
    /\ mitems = [m \in Maps |-> [k \in Keys |-> Absent]]
    /\ mpc = [g \in Mergers |-> "idle"]
    /\ margs = [g \in Mergers |-> [m |-> "a", other |-> "a"]]

\* ------------------------------------------------------------- the process
\* An unrecovered panic of any goroutine ends the whole process.
Alive == crashed = "none"

\* The next unused submission (submissions are numbered in the order made).
Idle == {w \in Tasks : pc[w] = "idle"}
NextTask == CHOOSE w \in Idle : \A v \in Idle : w <= v
IdleTimed == {t \in Timed : tpc[t] = "idle"}
NextTimed == CHOOSE t \in IdleTimed : \A u \in IdleTimed : t <= u

\* --------------------------------------------------------- the Panic Guard
\* Faulty variant of executeWithRecover: the deferred function recovers the
\* panic but does not store the error in the named result.
executeWithRecoverNoErr(o) == [Value |-> o.value, Err |-> o.err]

\* executeWithRecover: the named result is Result{value, err} when the body
\* returns; when it panics the return statement never ran, so Value keeps
\* its zero value and the deferred recover sets only Err.
executeWithRecover(o) ==
    IF o.kind = "panic"
    THEN [Value |-> Nil, Err |-> PanicErr(o.payload)]
    ELSE [Value |-> o.value, Err |-> o.err]

\* ------------------------------------------------------------------ Execute
\* Faulty variant of CanAcquire: the goroutine does not wait for a slot.
CanAcquireUnbounded == TRUE

\* case e.workerPool <- struct{}{}: a send on the buffered channel is ready
\* while the buffer holds fewer than cap(workerPool) tokens.
CanAcquire == workerPool < workers

\* Faulty variant of CanAbandon: the cancellation also takes a goroutine out
\* of its Task body (the select is entered again while the body executes).
CanAbandonRunning(w) == pc[w] \in {"select", "running"} /\ ctxDone

\* Faulty variant of CanAbandon: the cancellation is also acted upon after
\* the Result was sent (a second receive on ctx.Done() after the select).
CanAbandonAnywhere(w) == pc[w] \in {"select", "release"} /\ ctxDone

\* case <-e.ctx.Done(): ready once the context is cancelled.  The two cases
\* are the branches of one select, taken by a goroutine waiting in it.
CanAbandon(w) == pc[w] = "select" /\ ctxDone

\* The goroutine is blocked in a send on e.results.
Sending(w) == pc[w] \in {"send", "sendCancel"}

\* Faulty variant of Submit: the goroutine is started without e.wg.Add(1).
SubmitUncounted(w) ==
    /\ wg' = wg
    /\ pc' = [pc EXCEPT ![w] = "select"]
    /\ UNCHANGED <<res, did, invoked, published>>

\* Faulty variant of Submit: the slot is taken in Execute itself, before the
\* goroutine is started, so Execute waits while the pool is full.
SubmitBlocking(w) ==
    /\ workerPool < workers
    /\ wg' = wg + 1
    /\ pc' = [pc EXCEPT ![w] = "select"]
    /\ UNCHANGED <<res, did, invoked, published>>

\* Execute's own statements: e.wg.Add(1); go func() {...}().
Submit(w) ==
    /\ wg' = wg + 1
    /\ pc' = [pc EXCEPT ![w] = "select"]
    /\ UNCHANGED <<res, did, invoked, published>>

\* The caller calls Execute(task).
Execute ==
    /\ Alive /\ caller = "ready" /\ Idle # {}
    /\ Submit(NextTask)
    /\ UNCHANGED <<listVars, mapVars, workers, parentDone, workerPool, closed, ctxDone, crashed, waiters, caller>>
    /\ UNCHANGED <<allVars, timedVars, shutVars, awtVars>>

\* The goroutine takes a slot and invokes the Task body.
Acquire(w) ==
    /\ Alive /\ pc[w] = "select" /\ CanAcquire
    /\ workerPool' = workerPool + 1
    /\ pc' = [pc EXCEPT ![w] = "running"]
    /\ invoked' = [invoked EXCEPT ![w] = @ + 1]
    /\ UNCHANGED <<listVars, mapVars, workers, parentDone, closed, wg, ctxDone, crashed, res, did, published, waiters, caller>>
    /\ UNCHANGED <<allVars, timedVars, shutVars, awtVars>>

\* The goroutine sees the cancelled context: it is about to send
\* Result{Err: e.ctx.Err()} without invoking the body.
Abandon(w) ==
    /\ Alive /\ CanAbandon(w)
    /\ pc' = [pc EXCEPT ![w] = "sendCancel"]
    /\ res' = [res EXCEPT ![w] = [Value |-> Nil, Err |-> Canceled]]
    /\ UNCHANGED <<listVars, mapVars, workers, parentDone, workerPool, closed, wg, ctxDone, crashed, did, invoked,
                   published, waiters, caller>>
    /\ UNCHANGED <<allVars, timedVars, shutVars, awtVars>>

\* The Task body ends (returns or panics) under executeWithRecover; the
\* goroutine is then about to send the Result, still holding its slot.
Finish(w) ==
    /\ Alive /\ pc[w] = "running"
    /\ \E o \in Outcomes :
         /\ did' = [did EXCEPT ![w] = o]
         /\ res' = [res EXCEPT ![w] = executeWithRecover(o)]
    /\ pc' = [pc EXCEPT ![w] = "send"]
    /\ UNCHANGED <<listVars, mapVars, workers, parentDone, workerPool, closed, wg, ctxDone, crashed, invoked,
                   published, waiters, caller>>
    /\ UNCHANGED <<allVars, timedVars, shutVars, awtVars>>

\* The sender's half of a rendezvous on the unbuffered results channel: the
\* Result is handed over and the goroutine goes on to its deferred calls
\* (the slot release when it holds one, then wg.Done).
Handover(w) ==
    /\ pc' = [pc EXCEPT ![w] = IF pc[w] = "send" THEN "release" ELSE "wgdone"]
    /\ published' = [published EXCEPT ![w] = @ + 1]
    /\ UNCHANGED <<res, did, invoked>>

\* A send on the closed results channel panics; nothing recovers it in the
\* goroutine, so the process ends.
SendOnClosed(w) ==
    /\ Alive /\ Sending(w) /\ closed
    /\ crashed' = "send on closed channel"
    /\ pc' = [pc EXCEPT ![w] = "panicked"]
    /\ UNCHANGED <<listVars, mapVars, workers, parentDone, workerPool, closed, wg, ctxDone, res, did, invoked,
                   published, waiters, caller>>
    /\ UNCHANGED <<allVars, timedVars, shutVars, awtVars>>

\* Faulty variant of Release: the release is not deferred but written after
\* the send, so it is skipped when the body panicked.
ReleaseUnlessPanicked(w) ==
    /\ Alive /\ pc[w] = "release"
    /\ workerPool' = IF did[w].kind = "panic" THEN workerPool ELSE workerPool - 1
    /\ pc' = [pc EXCEPT ![w] = "wgdone"]
    /\ UNCHANGED <<listVars, mapVars, workers, parentDone, closed, wg, ctxDone, crashed, res, did,
                   invoked, published, waiters, caller>>
    /\ UNCHANGED <<allVars, timedVars, shutVars, awtVars>>

\* defer func() { <-e.workerPool }()
Release(w) ==
    /\ Alive /\ pc[w] = "release"
    /\ workerPool' = workerPool - 1
    /\ pc' = [pc EXCEPT ![w] = "wgdone"]
    /\ UNCHANGED <<listVars, mapVars, workers, parentDone, closed, wg, ctxDone, crashed, res, did, invoked, published,
                   waiters, caller>>
    /\ UNCHANGED <<allVars, timedVars, shutVars, awtVars>>

\* defer e.wg.Done()
Done(w) ==
    /\ Alive /\ pc[w] = "wgdone"
    /\ wg' = wg - 1
    /\ pc' = [pc EXCEPT ![w] = "done"]
    /\ UNCHANGED <<listVars, mapVars, workers, parentDone, workerPool, closed, ctxDone, crashed, res, did, invoked,
                   published, waiters, caller>>
    /\ UNCHANGED <<allVars, timedVars, shutVars, awtVars>>

\* The caller receives one Result from Results() itself.
Receive(w) ==
    /\ Alive /\ caller = "ready" /\ ~closed /\ Sending(w)
    /\ Handover(w)
    /\ UNCHANGED <<listVars, mapVars, workers, parentDone, workerPool, closed, wg, ctxDone, crashed, waiters, caller>>
    /\ UNCHANGED <<allVars, timedVars, shutVars, awtVars>>

\* Faulty variant of WithContext: the option is dropped and e.ctx stays the
\* context derived from context.Background().
WithContextDetached(parent) == ctxDone

\* WithContext: e.ctx, e.cancel = context.WithCancel(ctx).  e.ctx is done
\* when the parent is done or e.cancel was called.
WithContext(parent) == parent \/ ctxDone

\* The context given to WithContext is cancelled by its owner.
Cancel ==
    /\ Alive /\ ~parentDone
    /\ parentDone' = TRUE
    /\ ctxDone' = WithContext(TRUE)
    /\ UNCHANGED <<listVars, mapVars, workers, workerPool, closed, wg, crashed, waiters, caller>>
    /\ UNCHANGED <<execVars, allVars, timedVars, shutVars, awtVars>>

\* --------------------------------------------------------------------- Wait
\* The goroutine started by Wait: wg.Wait() returns once the counter is
\* zero, then close(e.results); closing a closed channel panics.
WaitClose ==
    /\ Alive /\ waiters > 0 /\ wg = 0
    /\ waiters' = waiters - 1
    /\ IF closed
       THEN crashed' = "close of closed channel" /\ UNCHANGED closed
       ELSE closed' = TRUE /\ UNCHANGED crashed
    /\ UNCHANGED <<listVars, mapVars, workers, parentDone, workerPool, wg, ctxDone, caller>>
    /\ UNCHANGED <<execVars, allVars, timedVars, shutVars, awtVars>>

\* The caller calls Wait() itself: the closing goroutine is started and the
\* call returns.
Wait ==
    /\ Alive /\ caller = "ready" /\ waiters < MaxWaiters
    /\ waiters' = waiters + 1
    /\ UNCHANGED <<listVars, mapVars, workers, parentDone, workerPool, closed, wg, ctxDone, crashed, caller>>
    /\ UNCHANGED <<execVars, allVars, timedVars, shutVars, awtVars>>

\* --------------------------------------------------------------- ExecuteAll
\* The caller calls ExecuteAll(tasks...) with k tasks.
ExecuteAll(k) ==
    /\ Alive /\ caller = "ready" /\ allBatch < MaxBatches
    /\ k <= Cardinality(Idle)
    /\ caller' = "all_submit"
    /\ allLeft' = k
    /\ allK' = k
    /\ allBatch' = allBatch + 1
    /\ allFirst' = Cardinality(Tasks \ Idle) + 1
    /\ allResults' = <<>>
    /\ UNCHANGED <<listVars, mapVars, workers, parentDone, workerPool, closed, wg, ctxDone, crashed, waiters>>
    /\ UNCHANGED <<execVars, timedVars, shutVars, awtVars>>

\* for _, task := range tasks { e.Execute(task) }
AllSubmit ==
    /\ Alive /\ caller = "all_submit" /\ allLeft > 0
    /\ Submit(NextTask)
    /\ allLeft' = allLeft - 1
    /\ UNCHANGED <<listVars, mapVars, workers, parentDone, workerPool, closed, ctxDone, crashed, waiters, caller>>
    /\ UNCHANGED <<allK, allBatch, allFirst, allResults, timedVars, shutVars, awtVars>>

\* e.Wait(): starts the closing goroutine; the caller enters the range loop.
AllWait ==
    /\ Alive /\ caller = "all_submit" /\ allLeft = 0
    /\ waiters' = waiters + 1
    /\ caller' = "all_collect"
    /\ UNCHANGED <<listVars, mapVars, workers, parentDone, workerPool, closed, wg, ctxDone, crashed>>
    /\ UNCHANGED <<execVars, allVars, timedVars, shutVars, awtVars>>

\* for result := range e.Results() { results = append(results, result) }
\* "by" is a ghost field: the submission the Result came from.
AllReceive(w) ==
    /\ Alive /\ caller = "all_collect" /\ ~closed /\ Sending(w)
    /\ Handover(w)
    /\ allResults' = Append(allResults,
                            [Value |-> res[w].Value, Err |-> res[w].Err, by |-> w])
    /\ UNCHANGED <<listVars, mapVars, workers, parentDone, workerPool, closed, wg, ctxDone, crashed, waiters, caller>>
    /\ UNCHANGED <<allLeft, allK, allBatch, allFirst, timedVars, shutVars, awtVars>>

\* The range loop ends when the channel is closed; ExecuteAll returns results.
AllReturn ==
    /\ Alive /\ caller = "all_collect" /\ closed
    /\ caller' = "ready"
    /\ UNCHANGED <<listVars, mapVars, workers, parentDone, workerPool, closed, wg, ctxDone, crashed, waiters>>
    /\ UNCHANGED <<execVars, allVars, timedVars, shutVars, awtVars>>

\* ------------------------------------------------------- ExecuteWithTimeout
\* Faulty variant of TimedCtxDone: ctx derived with WithCancel, no deadline.
TimedCtxDoneNoTimer(t) == ctxDone

\* ctx of ExecuteWithTimeout, context.WithTimeout(e.ctx, timeout), is done
\* when the timeout has elapsed or e.ctx is cancelled.
TimedCtxDone(t) == timer[t] \/ ctxDone

\* The context the Task body of ExecuteWithTimeout receives is done:
\* executeWithRecover calls its argument with e.ctx, and the wrapper passes
\* that innerCtx on to the task; the derived ctx is used by the select only.
TimedBodyCtxDone(t) == ctxDone

\* The caller calls ExecuteWithTimeout(task, timeout): the goroutine is
\* started and invokes the body at once; the caller waits in the select.
ExecuteWithTimeout ==
    /\ Alive /\ caller = "ready" /\ IdleTimed # {}
    /\ tpc' = [tpc EXCEPT ![NextTimed] = "running"]
    /\ cur' = NextTimed
    /\ caller' = "timed"
    /\ UNCHANGED <<listVars, mapVars, workers, parentDone, workerPool, closed, wg, ctxDone, crashed, waiters>>
    /\ UNCHANGED <<shutVars, awtVars, execVars, allVars, tdid, resultChan, timer, tret, tavail>>

\* Faulty variant of ResultChanReady: resultChan made without a buffer, so
\* the send needs the caller to be receiving in its select.
ResultChanReadyUnbuffered(t) == caller = "timed" /\ cur = t

\* resultChan <- result can proceed: make(chan Result, 1) has room for the
\* one Result its single sender ever puts there.
ResultChanReady(t) == resultChan[t] = NoResult

\* The body ends under executeWithRecover and the Result is put in the
\* buffered resultChan; the goroutine then ends.  A send that cannot proceed
\* leaves the goroutine blocked.
TimedFinish(t) ==
    /\ Alive /\ tpc[t] = "running"
    /\ \E o \in Outcomes :
         /\ tdid' = [tdid EXCEPT ![t] = o]
         /\ resultChan' = [resultChan EXCEPT ![t] =
                              IF ResultChanReady(t) THEN executeWithRecover(o) ELSE @]
    /\ tpc' = [tpc EXCEPT ![t] = IF ResultChanReady(t) THEN "done" ELSE "blocked"]
    /\ UNCHANGED <<listVars, mapVars, workers, parentDone, workerPool, closed, wg, ctxDone, crashed, waiters, caller>>
    /\ UNCHANGED <<shutVars, awtVars, execVars, allVars, timer, tret, tavail, cur>>

\* The timeout of the call the caller is waiting in elapses.
TimerFires ==
    /\ Alive /\ caller = "timed" /\ ~timer[cur]
    /\ timer' = [timer EXCEPT ![cur] = TRUE]
    /\ UNCHANGED <<listVars, mapVars, workers, parentDone, workerPool, closed, wg, ctxDone, crashed, waiters, caller>>
    /\ UNCHANGED <<shutVars, awtVars, execVars, allVars, tpc, tdid, resultChan, tret, tavail, cur>>

\* Ghost: which cases of the caller's select are ready when it is resolved.
Ready(t) ==
    IF resultChan[t] # NoResult
    THEN (IF TimedCtxDone(t) THEN "both" ELSE "result")
    ELSE (IF TimedCtxDone(t) THEN "done" ELSE "neither")

\* Faulty variant of ReturnedResult: only the error of the Result is kept.
ReturnedResultNoValue(t) == [Value |-> Nil, Err |-> resultChan[t].Err]

\* What the first case of the select returns: the Result received.
ReturnedResult(t) == resultChan[t]

\* What the second case returns: Result{Err: fmt.Errorf(...)}.
ReturnedTimeout == [Value |-> Nil, Err |-> TimeoutErr]

\* case result := <-resultChan: return result
TimedReturnResult ==
    /\ Alive /\ caller = "timed" /\ resultChan[cur] # NoResult
    /\ tret' = [tret EXCEPT ![cur] = ReturnedResult(cur)]
    /\ resultChan' = [resultChan EXCEPT ![cur] = NoResult]
    /\ tavail' = [tavail EXCEPT ![cur] = Ready(cur)]
    /\ caller' = "ready"
    /\ UNCHANGED <<listVars, mapVars, workers, parentDone, workerPool, closed, wg, ctxDone, crashed, waiters>>
    /\ UNCHANGED <<shutVars, awtVars, execVars, allVars, tpc, tdid, timer, cur>>

\* case <-ctx.Done(): return Result{Err: fmt.Errorf("... timed out after %v")}
TimedReturnTimeout ==
    /\ Alive /\ caller = "timed" /\ TimedCtxDone(cur)
    /\ tret' = [tret EXCEPT ![cur] = ReturnedTimeout]
    /\ tavail' = [tavail EXCEPT ![cur] = Ready(cur)]
    /\ caller' = "ready"
    /\ UNCHANGED <<listVars, mapVars, workers, parentDone, workerPool, closed, wg, ctxDone, crashed, waiters>>
    /\ UNCHANGED <<shutVars, awtVars, execVars, allVars, tpc, tdid, resultChan, timer, cur>>

\* ---------------------------------------------------- ExecuteAllWithTimeout
\* ctx of ExecuteAllWithTimeout, context.WithTimeout(e.ctx, timeout).
AwtCtxDone(c) == awtTimer[c] \/ ctxDone

\* The submissions of ExecuteAllWithTimeout call c.
AwtBatch(c) == {w \in Tasks : awtFirst[c] <= w /\ w < awtFirst[c] + awtK[c]}

\* The caller calls ExecuteAllWithTimeout(timeout, tasks...) with k tasks.
ExecuteAllWithTimeout(k) ==
    /\ Alive /\ caller = "ready" /\ awtCalls < MaxTimedBatches
    /\ k <= Cardinality(Idle)
    /\ awtCalls' = awtCalls + 1
    /\ awtLeft' = k
    /\ awtK' = [awtK EXCEPT ![awtCalls + 1] = k]
    /\ awtFirst' = [awtFirst EXCEPT ![awtCalls + 1] = Cardinality(Tasks \ Idle) + 1]
    /\ caller' = "awt_submit"
    /\ UNCHANGED <<listVars, mapVars, workers, parentDone, workerPool, closed, wg, ctxDone, crashed, waiters>>
    /\ UNCHANGED <<execVars, allVars, timedVars, shutVars>>
    /\ UNCHANGED <<awtAcc, awtCollector, awtTimer, awtRet, awtBranch>>

\* for _, task := range tasks { e.Execute(task) }
AwtSubmit ==
    /\ Alive /\ caller = "awt_submit" /\ awtLeft > 0
    /\ Submit(NextTask)
    /\ awtLeft' = awtLeft - 1
    /\ UNCHANGED <<listVars, mapVars, workers, parentDone, workerPool, closed, ctxDone, crashed, waiters, caller>>
    /\ UNCHANGED <<allVars, timedVars, shutVars>>
    /\ UNCHANGED <<awtCalls, awtK, awtFirst, awtAcc, awtCollector, awtTimer, awtRet,
                   awtBranch>>

\* var results; done := make(chan struct{}); go func() {...}(): the collector
\* goroutine is started and the caller enters the select.  Wait is not called.
AwtStart ==
    /\ Alive /\ caller = "awt_submit" /\ awtLeft = 0
    /\ awtCollector' = [awtCollector EXCEPT ![awtCalls] = "ranging"]
    /\ caller' = "awt_wait"
    /\ UNCHANGED <<listVars, mapVars, workers, parentDone, workerPool, closed, wg, ctxDone, crashed, waiters>>
    /\ UNCHANGED <<execVars, allVars, timedVars, shutVars>>
    /\ UNCHANGED <<awtCalls, awtLeft, awtK, awtFirst, awtAcc, awtTimer, awtRet, awtBranch>>

\* The collector: for result := range e.Results() { results = append(...) }.
\* It goes on as long as the channel is open, whatever the caller does.
AwtCollect(c, w) ==
    /\ Alive /\ awtCollector[c] = "ranging" /\ ~closed /\ Sending(w)
    /\ Handover(w)
    /\ awtAcc' = [awtAcc EXCEPT ![c] =
                    Append(@, [Value |-> res[w].Value, Err |-> res[w].Err, by |-> w])]
    /\ UNCHANGED <<listVars, mapVars, workers, parentDone, workerPool, closed, wg, ctxDone, crashed, waiters, caller>>
    /\ UNCHANGED <<allVars, timedVars, shutVars>>
    /\ UNCHANGED <<awtCalls, awtLeft, awtK, awtFirst, awtCollector, awtTimer, awtRet,
                   awtBranch>>

\* The collector's range loop ends when the channel is closed: close(done).
AwtCollectorEnds(c) ==
    /\ Alive /\ awtCollector[c] = "ranging" /\ closed
    /\ awtCollector' = [awtCollector EXCEPT ![c] = "ended"]
    /\ UNCHANGED <<listVars, mapVars, workers, parentDone, workerPool, closed, wg, ctxDone, crashed, waiters, caller>>
    /\ UNCHANGED <<execVars, allVars, timedVars, shutVars>>
    /\ UNCHANGED <<awtCalls, awtLeft, awtK, awtFirst, awtAcc, awtTimer, awtRet, awtBranch>>

\* The timeout of the call the caller is in elapses.
AwtTimerFires ==
    /\ Alive /\ caller \in {"awt_submit", "awt_wait"} /\ ~awtTimer[awtCalls]
    /\ awtTimer' = [awtTimer EXCEPT ![awtCalls] = TRUE]
    /\ UNCHANGED <<listVars, mapVars, workers, parentDone, workerPool, closed, wg, ctxDone, crashed, waiters, caller>>
    /\ UNCHANGED <<execVars, allVars, timedVars, shutVars>>
    /\ UNCHANGED <<awtCalls, awtLeft, awtK, awtFirst, awtAcc, awtCollector, awtRet,
                   awtBranch>>

\* What a read of the results variable can yield while the collector may be
\* appending to it with no synchronisation in between (a data race): the
\* current slice or one it held before.
RacyRead(acc) == {SubSeq(acc, 1, n) : n \in 0..Len(acc)}

\* case <-ctx.Done(): return results
AwtReturnTimeout ==
    /\ Alive /\ caller = "awt_wait" /\ AwtCtxDone(awtCalls)
    /\ \E r \in RacyRead(awtAcc[awtCalls]) : awtRet' = [awtRet EXCEPT ![awtCalls] = r]
    /\ awtBranch' = [awtBranch EXCEPT ![awtCalls] = "timeout"]
    /\ caller' = "ready"
    /\ UNCHANGED <<listVars, mapVars, workers, parentDone, workerPool, closed, wg, ctxDone, crashed, waiters>>
    /\ UNCHANGED <<execVars, allVars, timedVars, shutVars>>
    /\ UNCHANGED <<awtCalls, awtLeft, awtK, awtFirst, awtAcc, awtCollector, awtTimer>>

\* case <-done: return results (ordered after the collector's last append).
AwtReturnDone ==
    /\ Alive /\ caller = "awt_wait" /\ awtCollector[awtCalls] = "ended"
    /\ awtRet' = [awtRet EXCEPT ![awtCalls] = awtAcc[awtCalls]]
    /\ awtBranch' = [awtBranch EXCEPT ![awtCalls] = "done"]
    /\ caller' = "ready"
    /\ UNCHANGED <<listVars, mapVars, workers, parentDone, workerPool, closed, wg, ctxDone, crashed, waiters>>
    /\ UNCHANGED <<execVars, allVars, timedVars, shutVars>>
    /\ UNCHANGED <<awtCalls, awtLeft, awtK, awtFirst, awtAcc, awtCollector, awtTimer>>

\* ------------------------------------------------------------------ Shutdown
\* Faulty variant of ShutdownDrained: done is closed without wg.Wait().
ShutdownDrainedAtOnce == TRUE

\* e.wg.Wait() returns: the WaitGroup counter is zero.
ShutdownDrained == wg = 0

\* Faulty variant of cancel: cancelling a cancelled context renews it.
cancelRenews == ~ctxDone

\* e.cancel(): e.ctx is cancelled, whether or not it was before.
cancel == TRUE

\* The caller calls Shutdown(timeout): e.cancel(), a fresh done channel, the
\* goroutine that waits for the WaitGroup, and the caller enters the select.
Shutdown ==
    /\ Alive /\ caller = "ready" /\ sdCalls < MaxShutdowns
    /\ ctxDone' = cancel
    /\ sdCalls' = sdCalls + 1
    /\ sdWaiter' = TRUE
    /\ sdDone' = FALSE
    /\ sdTimer' = FALSE
    /\ sdRet' = NoReturn
    /\ sdAtCall' = (\A w \in Tasks : pc[w] = "idle" \/ did[w] # NoOutcome)
    /\ sdAtReturn' = NotReturned
    /\ caller' = "shutdown"
    /\ UNCHANGED <<listVars, mapVars, workers, parentDone, workerPool, closed, wg, crashed, waiters>>
    /\ UNCHANGED <<execVars, allVars, timedVars, awtVars>>

\* go func() { e.wg.Wait(); close(done) }()
ShutdownWaitDone ==
    /\ Alive /\ sdWaiter /\ ShutdownDrained
    /\ sdWaiter' = FALSE
    /\ sdDone' = TRUE
    /\ UNCHANGED <<listVars, mapVars, workers, parentDone, workerPool, closed, wg, ctxDone, crashed, waiters, caller>>
    /\ UNCHANGED <<execVars, allVars, timedVars, awtVars>>
    /\ UNCHANGED <<sdCalls, sdTimer, sdRet, sdAtCall, sdAtReturn>>

\* The timeout of the Shutdown the caller is waiting in elapses.
ShutdownTimerFires ==
    /\ Alive /\ caller = "shutdown" /\ ~sdTimer
    /\ sdTimer' = TRUE
    /\ UNCHANGED <<listVars, mapVars, workers, parentDone, workerPool, closed, wg, ctxDone, crashed, waiters, caller>>
    /\ UNCHANGED <<execVars, allVars, timedVars, awtVars>>
    /\ UNCHANGED <<sdCalls, sdWaiter, sdDone, sdRet, sdAtCall, sdAtReturn>>

\* Ghost: the state of the select of Shutdown when it is resolved.
ShutdownSeen ==
    [wg |-> wg,
     ready |-> IF sdDone THEN (IF sdTimer THEN "both" ELSE "done")
               ELSE (IF sdTimer THEN "timer" ELSE "neither"),
     tasks |-> Cardinality(Tasks \ Idle)]

\* case <-done: return nil
ShutdownReturnNil ==
    /\ Alive /\ caller = "shutdown" /\ sdDone
    /\ sdRet' = NoErr
    /\ sdAtReturn' = ShutdownSeen
    /\ caller' = "ready"
    /\ UNCHANGED <<listVars, mapVars, workers, parentDone, workerPool, closed, wg, ctxDone, crashed, waiters>>
    /\ UNCHANGED <<execVars, allVars, timedVars, awtVars>>
    /\ UNCHANGED <<sdCalls, sdWaiter, sdDone, sdTimer, sdAtCall>>

\* case <-time.After(timeout): return fmt.Errorf(...)
ShutdownReturnTimeout ==
    /\ Alive /\ caller = "shutdown" /\ sdTimer
    /\ sdRet' = ShutdownErr
    /\ sdAtReturn' = ShutdownSeen
    /\ caller' = "ready"
    /\ UNCHANGED <<listVars, mapVars, workers, parentDone, workerPool, closed, wg, ctxDone, crashed, waiters>>
    /\ UNCHANGED <<execVars, allVars, timedVars, awtVars>>
    /\ UNCHANGED <<sdCalls, sdWaiter, sdDone, sdTimer, sdAtCall>>

\* --------------------------------------------------------------------- List
\* cap(s) and the elements s[0:len(s)] of a slice (indexed from 1 here).
Cap(s) == IF s.arr = 0 THEN 0 ELSE Len(heap[s.arr])
Elems(s) == [i \in 1..s.len |-> heap[s.arr][i]]
\* The contents of List x.
Contents(x) == Elems(items[x])

\* A fresh backing array of capacity c holding e, the rest zero.
NewArray(e, c) == [i \in 1..c |-> IF i <= Len(e) THEN e[i] ELSE Zero]

\* append(s, e...): the possible results <<heap, slice>>.  With nothing to
\* append the slice itself is returned; with room in the backing array the
\* elements are written there, after s's own, and the array is shared; else
\* a new array is allocated, of a capacity the runtime chooses (at least
\* the length needed).
append(s, e) ==
    IF Len(e) = 0 THEN {<<heap, s>>}
    ELSE IF s.len + Len(e) <= Cap(s)
    THEN {<<[heap EXCEPT ![s.arr] =
                [i \in 1..Len(@) |->
                    IF s.len < i /\ i <= s.len + Len(e) THEN e[i - s.len] ELSE @[i]]],
            [arr |-> s.arr, len |-> s.len + Len(e)]>>}
    ELSE {<<Append(heap, NewArray(Elems(s) \o e, c)),
            [arr |-> Len(heap) + 1, len |-> s.len + Len(e)]>> :
                c \in {n \in 1..MaxCap : n >= s.len + Len(e) /\ Len(heap) < MaxArrays}}

\* New(items...): called with a slice and "...", the variadic parameter is
\* that slice itself, and it becomes the items of the new List.
New(s) == s

\* The elements of e in ascending order (sort.Slice with less being <).
Sorted(e) ==
    CHOOSE t \in [1..Len(e) -> Vals \cup {Zero}] :
        /\ \A i, j \in 1..Len(e) : i < j => t[i] <= t[j]
        /\ \A v \in Vals \cup {Zero} :
              Cardinality({i \in 1..Len(e) : t[i] = v})
                  = Cardinality({i \in 1..Len(e) : e[i] = v})

\* The backing array a with its first n elements replaced by e.
Overwrite(a, e) == [i \in 1..Len(a) |-> IF i <= Len(e) THEN e[i] ELSE a[i]]

\* x.Add(v): l.items = append(l.items, item).
Add(x, v) ==
    /\ made[x]
    /\ \E r \in append(items[x], <<v>>) :
          /\ heap' = r[1]
          /\ items' = [items EXCEPT ![x] = r[2]]
    /\ last' = [op |-> "Add", on |-> x]
    /\ UNCHANGED <<asyncVars, mapVars, made>>

\* x.Set(i, v): l.items[index] = item, or the index error and no change.
Set(x, i, v) ==
    /\ made[x]
    /\ IF i <= items[x].len
       THEN heap' = [heap EXCEPT ![items[x].arr][i] = v]
       ELSE UNCHANGED heap
    /\ last' = [op |-> "Set", on |-> x]
    /\ UNCHANGED <<asyncVars, mapVars, items, made>>

\* x.Remove(i): l.items = append(l.items[:index], l.items[index+1:]...), the
\* tail moved down by one inside the backing array; or the index error.
Remove(x, i) ==
    /\ made[x]
    /\ IF i <= items[x].len
       THEN /\ heap' = [heap EXCEPT ![items[x].arr] =
                          [j \in 1..Len(@) |->
                              IF i <= j /\ j < items[x].len THEN @[j + 1] ELSE @[j]]]
            /\ items' = [items EXCEPT ![x].len = @ - 1]
       ELSE UNCHANGED <<heap, items>>
    /\ last' = [op |-> "Remove", on |-> x]
    /\ UNCHANGED <<asyncVars, mapVars, made>>

\* x.Reverse(): the elements are swapped in place.
Reverse(x) ==
    /\ made[x] /\ items[x].len >= 1
    /\ heap' = [heap EXCEPT ![items[x].arr] =
                  Overwrite(@, [i \in 1..items[x].len |-> @[items[x].len + 1 - i]])]
    /\ last' = [op |-> "Reverse", on |-> x]
    /\ UNCHANGED <<asyncVars, mapVars, items, made>>

\* x.Sort(less): sort.Slice(l.items, ...) sorts in place.
Sort(x) ==
    /\ made[x] /\ items[x].len >= 1
    /\ heap' = [heap EXCEPT ![items[x].arr] = Overwrite(@, Sorted(Contents(x)))]
    /\ last' = [op |-> "Sort", on |-> x]
    /\ UNCHANGED <<asyncVars, mapVars, items, made>>

\* c := l.Clone(): return New(l.items...).
Clone ==
    /\ ~made["c"]
    /\ items' = [items EXCEPT !["c"] = New(items["l"])]
    /\ made' = [made EXCEPT !["c"] = TRUE]
    /\ last' = [op |-> "Clone", on |-> "l"]
    /\ UNCHANGED <<asyncVars, mapVars, heap>>

\* l.Concat(other): return New(append(l.items, other.items...)...).  The
\* first call's result is kept as r, the result of a later call is dropped.
Concat ==
    /\ \E r \in append(items["l"], Contents("other")) :
          /\ heap' = r[1]
          /\ items' = IF made["r"] THEN items ELSE [items EXCEPT !["r"] = New(r[2])]
    /\ made' = [made EXCEPT !["r"] = TRUE]
    /\ last' = [op |-> "Concat", on |-> "l"]
    /\ UNCHANGED <<asyncVars, mapVars>>

\* ---------------------------------------------------------------------- Map
\* sync.RWMutex: Lock is granted when nobody holds the mutex, RLock when no
\* writer holds it; neither is reentrant.
CanLock(m) == mutex[m].writer = 0 /\ mutex[m].readers = {}
CanRLock(m) == mutex[m].writer = 0

\* m.Put(k, v) by the main goroutine: Lock, m.items[key] = value, Unlock.
Put(m, k, v) ==
    /\ CanLock(m)
    /\ mitems' = [mitems EXCEPT ![m][k] = v]
    /\ UNCHANGED <<asyncVars, listVars, mutex, mpc, margs>>

\* Goroutine g calls m.Merge(other, resolver).
Merge(g, m, other) ==
    /\ mpc[g] = "idle"
    /\ margs' = [margs EXCEPT ![g] = [m |-> m, other |-> other]]
    /\ mpc' = [mpc EXCEPT ![g] = "Lock"]
    /\ UNCHANGED <<asyncVars, listVars, mutex, mitems>>

\* m.mutex.Lock()
MergeLock(g) ==
    /\ mpc[g] = "Lock" /\ CanLock(margs[g].m)
    /\ mutex' = [mutex EXCEPT ![margs[g].m].writer = g]
    /\ mpc' = [mpc EXCEPT ![g] = "RLock"]
    /\ UNCHANGED <<asyncVars, listVars, mitems, margs>>

\* other.mutex.RLock()
MergeRLock(g) ==
    /\ mpc[g] = "RLock" /\ CanRLock(margs[g].other)
    /\ mutex' = [mutex EXCEPT ![margs[g].other].readers = @ \cup {g}]
    /\ mpc' = [mpc EXCEPT ![g] = "range"]
    /\ UNCHANGED <<asyncVars, listVars, mitems, margs>>

\* resolver(existingV, v): the caller's function, here one that keeps the
\* existing value or one that takes the other map's.
Resolvers == {"existing", "other"}
resolver(f, existingV, v) == IF f = "existing" THEN existingV ELSE v

\* for k, v := range other.items { ... }
MergeRange(g) ==
    /\ mpc[g] = "range"
    /\ \E f \in Resolvers :
          mitems' = [mitems EXCEPT ![margs[g].m] =
                        [k \in Keys |->
                            IF mitems[margs[g].other][k] = Absent THEN @[k]
                            ELSE IF @[k] # Absent
                                 THEN resolver(f, @[k], mitems[margs[g].other][k])
                                 ELSE mitems[margs[g].other][k]]]
    /\ mpc' = [mpc EXCEPT ![g] = "RUnlock"]
    /\ UNCHANGED <<asyncVars, listVars, mutex, margs>>

\* defer other.mutex.RUnlock()
MergeRUnlock(g) ==
    /\ mpc[g] = "RUnlock"
    /\ mutex' = [mutex EXCEPT ![margs[g].other].readers = @ \ {g}]
    /\ mpc' = [mpc EXCEPT ![g] = "Unlock"]
    /\ UNCHANGED <<asyncVars, listVars, mitems, margs>>

\* defer m.mutex.Unlock(); Merge returns.
MergeUnlock(g) ==
    /\ mpc[g] = "Unlock"
    /\ mutex' = [mutex EXCEPT ![margs[g].m].writer = 0]
    /\ mpc' = [mpc EXCEPT ![g] = "done"]
    /\ UNCHANGED <<asyncVars, listVars, mitems, margs>>

\* A step of goroutine g inside Merge.
MergeStep(g) ==
    \/ MergeLock(g)
    \/ MergeRLock(g)
    \/ MergeRange(g)
    \/ MergeRUnlock(g)
    \/ MergeUnlock(g)

\* ------------------------------------------------------------ specification
\* The steps of Execute, ExecuteAll, Wait and their goroutines.
ExecNext ==
    \/ Execute
    \/ \E w \in Tasks : Acquire(w)
    \/ \E w \in Tasks : Abandon(w)
    \/ \E w \in Tasks : Finish(w)
    \/ \E w \in Tasks : SendOnClosed(w)
    \/ \E w \in Tasks : Release(w)
    \/ \E w \in Tasks : Done(w)
    \/ \E w \in Tasks : Receive(w)
    \/ Cancel
    \/ WaitClose
    \/ \E k \in 0..MaxTasks : ExecuteAll(k)
    \/ AllSubmit
    \/ AllWait
    \/ \E w \in Tasks : AllReceive(w)
    \/ AllReturn

\* The steps of ExecuteWithTimeout and its goroutine.
TimedNext ==
    \/ ExecuteWithTimeout
    \/ \E t \in Timed : TimedFinish(t)
    \/ TimerFires
    \/ TimedReturnResult
    \/ TimedReturnTimeout

\* The steps of Shutdown and its goroutine.
ShutdownNext ==
    \/ Shutdown
    \/ ShutdownWaitDone
    \/ ShutdownTimerFires
    \/ ShutdownReturnNil
    \/ ShutdownReturnTimeout

\* The steps of ExecuteAllWithTimeout and its collector goroutine.
AwtNext ==
    \/ \E k \in 0..MaxTasks : ExecuteAllWithTimeout(k)
    \/ AwtSubmit
    \/ AwtStart
    \/ \E c \in TimedBatches, w \in Tasks : AwtCollect(c, w)
    \/ \E c \in TimedBatches : AwtCollectorEnds(c)
    \/ AwtTimerFires
    \/ AwtReturnTimeout
    \/ AwtReturnDone

\* The operations of List called one after the other: other is only filled,
\* l and its clone c are changed in every way, the concatenation r is only
\* written with Set.
ListNext ==
    \/ \E x \in {"l", "c", "other"}, v \in Vals : Add(x, v)
    \/ \E x \in {"l", "c", "r"}, i \in 1..MaxCap, v \in Vals : Set(x, i, v)
    \/ \E x \in {"l", "c"}, i \in 1..MaxCap : Remove(x, i)
    \/ \E x \in {"l", "c"} : Reverse(x)
    \/ \E x \in {"l", "c"} : Sort(x)
    \/ Clone
    \/ Concat

\* Maps filled by the main goroutine and merged by the others.
MapNext ==
    \/ \E m \in Maps, k \in Keys, v \in Vals : Put(m, k, v)
    \/ \E g \in Mergers, m \in Maps, other \in Maps : Merge(g, m, other)
    \/ \E g \in Mergers : MergeStep(g)

\* The steps of Execute and its goroutine while the sink stays open.
SubmitNext ==
    \/ Execute
    \/ \E w \in Tasks : Acquire(w)
    \/ \E w \in Tasks : Abandon(w)
    \/ \E w \in Tasks : Finish(w)
    \/ \E w \in Tasks : Release(w)
    \/ \E w \in Tasks : Done(w)
    \/ \E w \in Tasks : Receive(w)
    \/ Cancel

Next == ExecNext \/ TimedNext

\* The Executor used through Execute, ExecuteAll, Results and
\* ExecuteWithTimeout.
Spec == Init /\ [][Next]_vars

\* Maps merged by concurrent goroutines.
MapSpec == Init /\ [][MapNext]_vars

\* Lists used by one goroutine.
ListSpec == Init /\ [][ListNext]_vars

\* The Executor used through Execute, ExecuteAll and Results only.
ExecSpec == Init /\ [][ExecNext]_vars

\* The Executor used through Execute, ExecuteAll, Results and Wait.
WaitSpec == Init /\ [][ExecNext \/ Wait]_vars

\* The Executor used through Execute, ExecuteAll, Results and
\* ExecuteAllWithTimeout.
TimedBatchSpec == Init /\ [][ExecNext \/ AwtNext]_vars

\* The Executor used through Execute, Results and Shutdown.
ShutdownSpec == Init /\ [][SubmitNext \/ ShutdownNext]_vars

\* The Executor used through ExecuteWithTimeout and Shutdown.
TimedShutdownSpec == Init /\ [][TimedNext \/ ShutdownNext]_vars

\* The Executor used through ExecuteWithTimeout only, its context being
\* cancelled at any moment.
TimedSpec == Init /\ [][TimedNext \/ Cancel]_vars

\* The same, the caller being scheduled whenever a case of its select is
\* ready; neither the end of a Task body nor the timer is forced.
FairTimedSpec ==
    TimedSpec /\ WF_vars(TimedReturnResult) /\ WF_vars(TimedReturnTimeout)

\* The Go scheduler runs every goroutine that can take a step: a goroutine in
\* the select, in a send that has a receiver or hits the closed channel, in
\* its deferred calls, the goroutine of Wait, the caller inside ExecuteAll.
\* Whether a Task body ends, and what the caller calls next, is not forced.
Scheduled ==
    /\ \A w \in Tasks :
          /\ WF_vars(Acquire(w)) /\ WF_vars(Abandon(w)) /\ WF_vars(SendOnClosed(w))
          /\ WF_vars(Release(w)) /\ WF_vars(Done(w)) /\ WF_vars(AllReceive(w))
    /\ WF_vars(WaitClose) /\ WF_vars(AllSubmit) /\ WF_vars(AllWait) /\ WF_vars(AllReturn)

\* ExecSpec under the scheduler, a Task body being free never to end.
FairExecSpec == ExecSpec /\ Scheduled

\* ExecSpec under the scheduler, every Task body ending.
TerminatingExecSpec == FairExecSpec /\ \A w \in Tasks : WF_vars(Finish(w))

\* ------------------------------------------------------------------- claims
\* Execute goroutines whose Task body is executing.
Running == {w \in Tasks : pc[w] = "running"}
\* ExecuteWithTimeout goroutines whose Task body is executing.
TimedRunning == {t \in Timed : tpc[t] = "running"}
\* The submissions of the current/last ExecuteAll.
InBatch == {w \in Tasks : allFirst <= w /\ w < allFirst + allK}
\* ExecuteAll has been called and has returned.
AllReturned == allBatch >= 1 /\ caller \notin {"all_submit", "all_collect"}
\* The body of o returned (v, nil).
Succeeded(o) == o.kind = "return" /\ o.err = NoErr
\* The body of o returned an error or panicked.
Failed(o) == o.kind = "panic" \/ (o.kind = "return" /\ o.err # NoErr)
\* The Result r is what a body that did o produces under the Panic Guard.
Reports(r, o) ==
    /\ o.kind = "return" => r.Value = o.value /\ r.Err = o.err
    /\ o.kind = "panic" => r.Value = Nil /\ Contains(r.Err, o.payload)

\* C1: for every capacity C >= 1, in every reachable state the number of
\* Task bodies submitted through Execute or ExecuteAll that are executing is
\* at most C.
C1_CapacityBound == workers >= 1 => Cardinality(Running) <= workers

\* C1 witness: capacity 1 is saturated by one executing body while another
\* submission waits for a slot.
C1_Witness ==
    /\ workers = 1
    /\ \E w, v \in Tasks : pc[w] = "running" /\ pc[v] = "select"

\* C2: the bodies started by ExecuteWithTimeout hold a slot like those started
\* by Execute, so the bodies executing, of both kinds together, never exceed
\* the capacity.
C2_TimedCountsAgainstCapacity ==
    workers >= 1 => Cardinality(Running) + Cardinality(TimedRunning) <= workers

\* C3: every call to Execute publishes at most one Result to the sink and
\* invokes the Task body at most once, whichever way the submission ends.
C3_AtMostOnce == \A w \in Tasks : published[w] <= 1 /\ invoked[w] <= 1

\* C3 witness: one submission ended after its body panicked and its Result
\* was published, another ended abandoned, its body never invoked.
C3_Witness ==
    \E w, v \in Tasks :
        /\ pc[w] = "done" /\ did[w].kind = "panic"
        /\ invoked[w] = 1 /\ published[w] = 1
        /\ pc[v] = "done" /\ invoked[v] = 0 /\ published[v] = 1

\* C4: every submission accepted by Execute eventually publishes its Result
\* (capacity >= 1).  Stated on the goroutines that have ended: a goroutine
\* that has ended publishes nothing later, so it must have published by then.
C4_EndedHasPublished ==
    workers >= 1 =>
        \A w \in Tasks : pc[w] \in {"done", "panicked"} => published[w] >= 1

\* C5: a panic of a Task body never escapes its goroutine: the Result of the
\* submission has a nil Value and an Err whose text contains the payload, the
\* Results of the other submissions are what their own bodies returned, and
\* the process is ended by no Task body (only by a use of the closed sink).
C5_PanicIsolated ==
    /\ \A w \in Tasks : did[w] # NoOutcome => Reports(res[w], did[w])
    /\ crashed # "none" => closed

\* C5 witness: a body panicked, its Result was published and its goroutine
\* ended; the Executor is alive and runs the body of another submission.
C5_Witness ==
    \E w, v \in Tasks :
        /\ did[w].kind = "panic" /\ pc[w] = "done" /\ published[w] = 1
        /\ pc[v] = "running" /\ Alive

\* C6: ExecuteAll called with K tasks on an Executor with capacity >= 1
\* returns a sequence of exactly K Results.
C6_ReturnsK == (AllReturned /\ workers >= 1) => Len(allResults) = allK

\* C7: the sequence returned by ExecuteAll contains only Results of the Tasks
\* passed to that call.
C7_OnlyOwnResults ==
    \A i \in DOMAIN allResults : allResults[i].by \in InBatch

\* C8: for ExecuteAll while the context is not cancelled, the returned
\* Results are the outcomes of the K bodies: as many success entries as
\* bodies that returned (v, nil), as many error entries as bodies that
\* returned an error or panicked, each entry reporting a body of the batch.
C8_SameOutcomes ==
    (AllReturned /\ ~ctxDone) =>
        /\ Cardinality({i \in DOMAIN allResults : allResults[i].Err = NoErr})
             = Cardinality({w \in InBatch : Succeeded(did[w])})
        /\ Cardinality({i \in DOMAIN allResults : allResults[i].Err # NoErr})
             = Cardinality({w \in InBatch : Failed(did[w])})

\* C9: once the timeout has elapsed, ExecuteWithTimeout returns, also when
\* the body never ends; when the Result was not there at that moment the
\* returned Result carries the timeout error.
C9_TimeoutReturns ==
    /\ [](\A t \in Timed :
            (tavail[t] = "done" /\ timer[t]) => tret[t] = [Value |-> Nil, Err |-> TimeoutErr])
    /\ \A t \in Timed :
            (caller = "timed" /\ cur = t /\ timer[t]) ~> (caller = "ready")

\* C9 witness: the call has returned the timeout error while the body is
\* still executing.
C9_Witness ==
    \E t \in Timed :
        /\ caller = "ready" /\ timer[t] /\ tavail[t] = "done"
        /\ tret[t].Err = TimeoutErr /\ tpc[t] = "running"

\* C10: when the Result is available and neither the timeout has elapsed nor
\* the context is cancelled, ExecuteWithTimeout returns exactly that Result:
\* the body's value and error, or the panic error.
C10_ReturnsTaskResult ==
    \A t \in Timed : tavail[t] = "result" => Reports(tret[t], tdid[t])

\* C10 witness: the call returned the value of its body.
C10_Witness ==
    \E t \in Timed :
        /\ tavail[t] = "result" /\ tdid[t].kind = "return"
        /\ tret[t].Value = "v" /\ tret[t].Err = NoErr

\* ExecuteWithTimeout call t has returned through the ctx.Done() case.
TimedOut(t) == tavail[t] \in {"done", "both"} /\ tret[t] = ReturnedTimeout

\* C11: when the timeout wins, the Task body is not stopped (while it is
\* executing it can still end), its Result is returned to no caller and is
\* not published to the sink, and its goroutine ends instead of blocking on
\* the hand-over of the Result.
C11_LoserRunsOnAndEnds ==
    /\ [](\A t \in Timed :
            TimedOut(t) =>
                /\ tpc[t] \in {"running", "done"}
                /\ tpc[t] = "running" => ENABLED TimedFinish(t)
                /\ tdid[t] # NoOutcome => tpc[t] = "done")
    /\ [][\A t \in Timed :
            /\ TimedOut(t) => tret'[t] = tret[t]
            /\ (tpc[t] = "running" /\ tpc'[t] # "running") =>
                  UNCHANGED <<published, allResults>>]_vars

\* C11 witness: the call returned the timeout error while the body was
\* executing; the body has since ended and its Result lies unread in
\* resultChan, the goroutine having ended.
C11_Witness ==
    \E t \in Timed :
        /\ tavail[t] = "done" /\ tret[t] = ReturnedTimeout /\ caller = "ready"
        /\ tpc[t] = "done" /\ resultChan[t] # NoResult

\* The last Shutdown call has returned.
ShutdownReturned == sdRet # NoReturn

\* C12: Shutdown returns no error whenever every Task accepted before the
\* call had finished executing, in particular when their bodies had all
\* ended before the call.  (A timeout return is tolerated here when the
\* WaitGroup counter was zero at that moment: the deadline then only raced
\* the waiting goroutine.)
C12_NoErrorWhenTasksEnded ==
    (ShutdownReturned /\ sdAtCall) => (sdRet = NoErr \/ sdAtReturn.wg = 0)

\* C13: Shutdown returns the timeout error if a goroutine counted by the
\* WaitGroup has not ended when the deadline elapses, and nil only if the
\* counter reached zero; on the timeout return the goroutines still running
\* are left as they are and go on.
C13_ShutdownOutcome ==
    /\ [](ShutdownReturned =>
            /\ sdRet = NoErr => sdAtReturn.wg = 0
            /\ sdAtReturn.wg > 0 => sdRet = ShutdownErr /\ sdAtReturn.ready = "timer"
            /\ sdAtReturn.ready = "timer" => sdRet = ShutdownErr
            /\ \A w \in Tasks : (pc[w] = "running" /\ Alive) => ENABLED Finish(w))
    /\ [][(caller = "shutdown" /\ caller' = "ready") =>
            UNCHANGED <<execVars, workerPool, wg>>]_vars

\* C13 witness: Shutdown returned the timeout error while a Task body was
\* executing, and the body is still executing.
C13_Witness ==
    /\ sdRet = ShutdownErr /\ sdAtReturn.wg > 0
    /\ \E w \in Tasks : pc[w] = "running"

\* C14: after Shutdown has returned, no Task submitted afterwards has its
\* body invoked.
C14_RejectsAfterShutdown ==
    ShutdownReturned => \A w \in Tasks : w > sdAtReturn.tasks => invoked[w] = 0

\* C15: once the context is cancelled, a submission that has not yet acquired
\* a slot is abandoned: its Task body is never invoked, also when a slot is
\* or becomes free.
C15_CancelledNeverInvoked ==
    [][\A w \in Tasks : (pc[w] = "select" /\ ctxDone) => pc'[w] # "running"]_vars

\* The collector of call c holds the Result of every Task of its batch.
AwtCollected(c) ==
    \A w \in AwtBatch(c) : \E i \in DOMAIN awtAcc[c] : awtAcc[c][i].by = w

\* C16: when all K Results of an ExecuteAllWithTimeout batch have been
\* collected and every submission has ended before the timer fires, the call
\* returns then: its done case is ready, or the collector is about to close
\* done, without the timer.
C16_ReturnsWhenCollected ==
    \A c \in TimedBatches :
        (/\ caller = "awt_wait" /\ c = awtCalls /\ awtK[c] >= 1
         /\ AwtCollected(c) /\ wg = 0
         /\ ~AwtCtxDone(c) /\ Alive)
        => (awtCollector[c] = "ended" \/ ENABLED AwtCollectorEnds(c))

\* C17: an ExecuteAllWithTimeout that returns because its timer fired returns
\* at most K Results, each the Result of a distinct Task of its batch.
C17_TimeoutReturnsOwnResults ==
    \A c \in TimedBatches :
        awtBranch[c] = "timeout" =>
            /\ Len(awtRet[c]) <= awtK[c]
            /\ \A i \in DOMAIN awtRet[c] : awtRet[c][i].by \in AwtBatch(c)
            /\ \A i, j \in DOMAIN awtRet[c] :
                   awtRet[c][i].by = awtRet[c][j].by => i = j

\* C18: after ExecuteAll has returned the Executor remains usable: no
\* goroutine faults by sending on, or closing again, the closed sink.
C18_NoFaultOnClosedSink == crashed = "none"

\* Number of goroutines receiving from the Results sink in a range loop.
Drainers ==
    Cardinality({c \in TimedBatches : awtCollector[c] = "ranging"})
        + (IF caller = "all_collect" THEN 1 ELSE 0)

\* C19: at most one drainer consumes the sink at any instant, and the
\* collector of an ExecuteAllWithTimeout that has returned consumes no Result
\* of a later submission.
C19_SingleDrainer ==
    /\ Drainers <= 1
    /\ \A c \in TimedBatches : \A i \in DOMAIN awtAcc[c] :
           awtAcc[c][i].by < awtFirst[c] + awtK[c]

\* C20: NewAsyncExecutor never returns an Executor of capacity <= 0 that
\* accepts submissions.
C20_NoUnadmittableExecutor == (\E w \in Tasks : pc[w] # "idle") => workers >= 1

\* C21: Execute never blocks its caller: whenever the caller is about to call
\* it, also with every slot held and nobody receiving from the sink, the call
\* can be made, and it returns having only incremented the WaitGroup and
\* started the goroutine of the submission.
C21_ExecuteNeverBlocks ==
    /\ [](Alive =>
            /\ (caller = "ready" /\ Idle # {}) => ENABLED Execute
            /\ (caller = "all_submit" /\ allLeft > 0) => ENABLED AllSubmit)
    /\ [][(caller = "ready" /\ wg' = wg + 1) =>
            /\ caller' = "ready"
            /\ \E w \in Tasks :
                   /\ pc[w] = "idle" /\ pc'[w] = "select"
                   /\ \A v \in Tasks \ {w} : pc'[v] = pc[v]
            /\ UNCHANGED <<workerPool, closed, ctxDone, res, published>>]_vars

\* C21 witness: every slot is held by a goroutine whose Result nobody
\* receives, and a later submission has been accepted and waits for a slot.
C21_Witness ==
    /\ workers >= 1 /\ workerPool = workers /\ caller = "ready"
    /\ \E w, v \in Tasks : w < v /\ pc[w] = "send" /\ pc[v] = "select"

\* C22: for an Executor constructed with WithContext, Shutdown cancels the
\* Executor's context and never the parent context, while a cancellation of
\* the parent context cancels the Executor's context, so that a submission
\* waiting for a slot can take the cancellation case of its select.
C22_ParentScope ==
    /\ [](/\ parentDone => ctxDone
          /\ \A w \in Tasks :
                (pc[w] = "select" /\ parentDone /\ Alive) => ENABLED Abandon(w))
    /\ [][(caller = "ready" /\ caller' = "shutdown") =>
            (ctxDone' /\ parentDone' = parentDone)]_vars

\* C22 witness: Shutdown has cancelled the Executor's context, a submission
\* that waited for a slot has taken the cancellation case, and the parent
\* context is not cancelled.
C22_Witness ==
    /\ sdCalls >= 1 /\ ctxDone /\ ~parentDone
    /\ \E w \in Tasks : pc[w] = "sendCancel"

\* C23: the cancellation of the Executor's context is monotonic: once it is
\* cancelled, by Shutdown or by the parent context, it is cancelled in every
\* later state.
C23_CancelMonotonic == [][ctxDone => ctxDone']_vars

\* C23 witness: the context has been cancelled both by the parent context
\* and by a Shutdown that has returned, with a submission accepted, and it is
\* cancelled.
C23_Witness == parentDone /\ ctxDone /\ ShutdownReturned /\ sdAtReturn.tasks >= 1

\* The goroutine of submission w holds a slot of workerPool.
HoldsSlot(w) == pc[w] \in {"running", "send", "release"}

\* C24: the slot of a Task is released when its body completes, whatever the
\* sink does: a goroutine whose body has ended and whose Result nobody has
\* received yet holds no slot, so with no body executing a waiting submission
\* can always take a slot.
C24_SlotFreeWhileUndrained ==
    (Alive /\ workers >= 1) =>
        /\ \A w \in Tasks :
               (did[w] # NoOutcome /\ published[w] = 0 /\ pc[w] = "send") => ~HoldsSlot(w)
        /\ \A v \in Tasks :
               (pc[v] = "select" /\ Running = {}) => ENABLED Acquire(v)

\* C25: with more submissions than slots, a waiting submission starts its
\* body only by taking a free slot, and, the running bodies all ending, every
\* waiting submission eventually starts (unless the context is cancelled or
\* the process has ended meanwhile).
C25_WaitingEventuallyStarts ==
    /\ [][\A v \in Tasks :
            (pc[v] = "select" /\ pc'[v] = "running") =>
                (workerPool < workers /\ workerPool' = workerPool + 1)]_vars
    /\ \A v \in Tasks :
          (pc[v] = "select" /\ workers >= 1) ~> (pc[v] = "running" \/ ctxDone \/ ~Alive)

\* C29: once the Executor's context is cancelled every waiter is unblocked:
\* a submission waiting for a slot stops waiting, and a caller blocked in
\* ExecuteAll, ExecuteWithTimeout or ExecuteAllWithTimeout returns, also when
\* a running Task body never ends.
C29_CancelUnblocksWaiters ==
    /\ \A w \in Tasks :
          (pc[w] = "select" /\ ctxDone) ~> (pc[w] # "select" \/ ~Alive)
    /\ (ctxDone /\ caller \in {"all_collect", "timed", "awt_wait"})
          ~> (caller = "ready" \/ ~Alive)

\* C26: when Shutdown returns no error, no Task body started by any
\* submission operation, ExecuteWithTimeout included, is still executing.
C26_NilMeansNoBodyRunning ==
    [][(caller = "shutdown" /\ caller' = "ready" /\ sdRet' = NoErr) =>
            (Running = {} /\ TimedRunning = {})]_vars

\* C27: the context passed to the Task body by ExecuteWithTimeout is the
\* time-bounded context: once the timeout has elapsed it is done, so a body
\* still executing can observe the timeout.
C27_BodyGetsTimedScope ==
    \A t \in Timed : (tpc[t] = "running" /\ timer[t]) => TimedBodyCtxDone(t)

\* C28: ExecuteWithTimeout returns the timeout error only when its timeout
\* has elapsed; when it returns because the Executor's context was cancelled
\* before the timeout and before the Result was there, the returned Result
\* carries the cancellation error.
C28_TimeoutErrOnlyOnTimeout ==
    \A t \in Timed :
        /\ tret[t].Err = TimeoutErr => timer[t]
        /\ (tavail[t] = "done" /\ ~timer[t]) => tret[t].Err = Canceled

\* C30: a cancellation does not preempt a started Task: once the body of a
\* submission has been invoked, it goes on to its own end whatever the context
\* does, and the Result of the submission is what the body did (its value and
\* error, or its panic error), never the cancellation error of the Executor.
C30_NoPreemption ==
    /\ [](\A w \in Tasks :
            invoked[w] >= 1 =>
                /\ res[w].Err # Canceled
                /\ did[w] # NoOutcome => Reports(res[w], did[w])
                /\ (pc[w] = "running" /\ Alive) => ENABLED Finish(w))
    /\ [][\A w \in Tasks :
            /\ pc[w] = "running" => pc'[w] \in {"running", "send"}
            /\ did[w] # NoOutcome => (did'[w] = did[w] /\ res'[w] = res[w])]_vars

\* C30 witness: the context is cancelled while the body of a submission is
\* executing; the body has not been taken out of its execution and no Result
\* has been put in its place.
C30_Witness ==
    /\ ctxDone /\ Alive
    /\ \E w \in Tasks :
          pc[w] = "running" /\ invoked[w] = 1 /\ did[w] = NoOutcome /\ res[w] = NoResult

\* C31: ExecuteAll returns only after the WaitGroup counter has returned to
\* zero: at the moment it returns every Task body of its batch has ended and
\* no goroutine of the batch holds a slot.
C31_ReturnsAfterDrain ==
    [][(caller = "all_collect" /\ caller' = "ready") =>
            /\ wg = 0
            /\ \A w \in InBatch : pc[w] # "running" /\ ~HoldsSlot(w)]_vars

\* C32: for capacity >= 1, ExecuteAll terminates whenever every Task body of
\* its batch terminates: the caller does not stay inside ExecuteAll for ever
\* unless a body of the batch goes on executing (or the process has ended).
C32_ExecuteAllTerminates ==
    []<>(\/ caller \notin {"all_submit", "all_collect"}
         \/ workers < 1 \/ ~Alive
         \/ \E w \in InBatch : pc[w] = "running")

\* C33: limiter accounting: the number of tokens in workerPool equals the
\* number of Execute goroutines that have taken a slot and not yet released
\* it, never exceeds the capacity, a slot is released once, also when the
\* body panicked, and when every accepted submission has ended all slots are
\* free.
C33_LimiterAccounting ==
    /\ [](Alive =>
            /\ workerPool = Cardinality({w \in Tasks : HoldsSlot(w)})
            /\ workerPool <= workers
            /\ (\A w \in Tasks : pc[w] \in {"idle", "done"}) => workerPool = 0)
    /\ [][\A w \in Tasks :
            (pc[w] = "release" /\ pc'[w] # "release") => workerPool' = workerPool - 1]_vars

\* C33 witness: two submissions have ended, one after its body panicked, both
\* having held a slot, and no slot is held.
C33_Witness ==
    /\ workerPool = 0 /\ Alive
    /\ \E w, v \in Tasks :
          /\ w # v /\ pc[w] = "done" /\ pc[v] = "done"
          /\ did[w].kind = "panic" /\ did[v].kind = "return"

C35_NoRacyRead ==
    [][(caller = "awt_wait" /\ caller' = "ready") =>
            awtCollector[awtCalls] = "ended"]_vars

\* The step is the operation op called on List x.
Called(ops, x) == last'.op \in ops /\ last'.on = x

\* C36: Clone returns a deep copy: after c := l.Clone(), no Set, Sort,
\* Reverse, Remove or Add on c changes the contents of l, and none on l
\* changes the contents of c.
C36_CloneIndependent ==
    [][made["c"] =>
          /\ Called({"Set", "Sort", "Reverse", "Remove", "Add"}, "c") =>
                Contents("l")' = Contents("l")
          /\ Called({"Set", "Sort", "Reverse", "Remove", "Add"}, "l") =>
                Contents("c")' = Contents("c")]_vars

\* C37: the result of r := l.Concat(other) is independent of its operands: a
\* later Set on r changes neither l nor other, and a later l.Concat(x) or
\* l.Add(y) does not change the contents of r.
C37_ConcatIndependent ==
    [][made["r"] =>
          /\ Called({"Set"}, "r") =>
                (Contents("l")' = Contents("l") /\ Contents("other")' = Contents("other"))
          /\ Called({"Concat", "Add"}, "l") =>
                Contents("r")' = Contents("r")]_vars

\* C38: Map.Merge always returns: no call, a self-merge m.Merge(m, r) and two
\* concurrent calls a.Merge(b, r) and b.Merge(a, r) included, is left inside
\* Merge with no goroutine able to take a step.
C38_MergeNeverBlocked ==
    (\E g \in Mergers : mpc[g] \notin {"idle", "done"}) =>
        \E h \in Mergers : ENABLED MergeStep(h)

====
